---- MODULE Spec2Model ----
(***************************************************************************)
(* Model of the language-flashcards action layer                           *)
(* (src/src/actions/index.ts) over the four tables of src/db/config.ts.    *)
(*                                                                         *)
(* The store is four tables, each a sequence of rows in insertion order;   *)
(* primary keys are auto-incremented from 1 and no handler deletes a row.  *)
(* Every handler is one action of Spec (a request served alone); NextConc  *)
(* splits the handlers into their individual store calls.                  *)
(***************************************************************************)
EXTENDS Integers, Sequences, FiniteSets, TLC

VARIABLES
    decks,      \* table VocabDecks
    cards,      \* table VocabCards
    sessions,   \* table VocabStudySessions
    reviews,    \* table VocabReviews
    now,        \* the wall clock read by new Date(), in milliseconds
    last,       \* the last request served: action, caller, input, outcome
    pre,        \* the four tables as they were before the last request
    prevInsert, \* the request before the last one, when it inserted a card
    procs       \* requests in flight (NextConc only)

vars == <<decks, cards, sessions, reviews, now, last, pre, prevInsert, procs>>

(***************************************************************************)
(* Bounds of the model.                                                    *)
(***************************************************************************)
MaxDecks == 1         \* decks
MaxDecksAcross == 2   \* decks, in the specifications about rows of several decks
MaxCards == 1
MaxSessions == 1
MaxReviews == 1
MaxRows == 2          \* cards, sessions and reviews together (Spec, SpecReview)
MaxTime == 1

(***************************************************************************)
(* Values.                                                                 *)
(***************************************************************************)
Undef == <<>>            \* an optional input key that is absent
Null == <<>>             \* SQL NULL in a nullable column
Some(v) == <<v>>         \* an optional input key or nullable column holding v
NoUser == "anonymous"    \* context.locals.user is absent
Users == {"u1", "u2"}
Callers == Users \cup {NoUser}
None == [op |-> "none"]       \* no response pending
Resting == [pc |-> "none"]    \* no request in flight

DB == [decks |-> decks, cards |-> cards, sessions |-> sessions, reviews |-> reviews]

\* a ?? b
Coalesce(a, b) == IF a = Undef THEN b ELSE a[1]

\* a nullable column of an inserted row: an undefined value stores NULL
Col(a) == IF a = Undef THEN Null ELSE a

\* a column under .set({...}): the query builder skips undefined values
SetCol(a, old) == IF a = Undef THEN old ELSE a[1]
SetNullableCol(a, old) == IF a = Undef THEN old ELSE a

Fail(code) == [code |-> code, data |-> <<>>, db |-> DB]
Ok(data, db) == [code |-> "OK", data |-> data, db |-> db]

(***************************************************************************)
(* requireUser and getDeckForUser.                                         *)
(***************************************************************************)
requireUser(caller) == caller # NoUser

\* the ownership resolver without its ownerId comparison
getDeckForUserAnyOwner(deckId, userId) ==
    IF {i \in DOMAIN decks : decks[i].id = deckId} = {} THEN "NOT_FOUND" ELSE "OK"

getDeckForUser(deckId, userId) ==
    LET found == {i \in DOMAIN decks : decks[i].id = deckId} IN
    IF found = {} THEN "NOT_FOUND"
    ELSE IF decks[CHOOSE i \in found : TRUE].ownerId # userId THEN "FORBIDDEN"
    ELSE "OK"

(***************************************************************************)
(* createDeck.                                                             *)
(***************************************************************************)
Levels == {"A1", "A2", "B1", "B2", "C1", "C2", "mixed"}

DeckFieldSets ==
    { [title |-> Undef, description |-> Undef, fromLanguage |-> Undef,
       toLanguage |-> Undef, level |-> Undef, tags |-> Undef, isActive |-> Undef],
      [title |-> Some("Travel"), description |-> Undef, fromLanguage |-> Undef,
       toLanguage |-> Undef, level |-> Undef, tags |-> Undef, isActive |-> Undef],
      [title |-> Undef, description |-> Undef, fromLanguage |-> Undef,
       toLanguage |-> Undef, level |-> Undef, tags |-> Undef, isActive |-> Some(FALSE)],
      [title |-> Some("Verbs"), description |-> Some("d"), fromLanguage |-> Some("de"),
       toLanguage |-> Some("fr"), level |-> Some("A1"), tags |-> Some("t"), isActive |-> Some(TRUE)],
      [title |-> Some(""), description |-> Undef, fromLanguage |-> Undef,
       toLanguage |-> Undef, level |-> Undef, tags |-> Undef, isActive |-> Undef] }

createDeckInput(input) ==
    /\ input.title # Undef
    /\ input.title # Some("")
    /\ input.level \in {Some(l) : l \in Levels} \cup {Undef}

createDeckValues(input, caller) ==
    [id |-> Len(decks) + 1,
     ownerId |-> caller,
     title |-> input.title[1],
     description |-> Col(input.description),
     fromLanguage |-> Coalesce(input.fromLanguage, "en"),
     toLanguage |-> Coalesce(input.toLanguage, "en"),
     level |-> Coalesce(input.level, "mixed"),
     tags |-> Col(input.tags),
     isActive |-> Coalesce(input.isActive, TRUE),
     createdAt |-> now,
     updatedAt |-> now]

createDeck(input, caller) ==
    IF ~requireUser(caller) THEN Fail("UNAUTHORIZED")
    ELSE
        LET deck == createDeckValues(input, caller)
        IN Ok(deck, [DB EXCEPT !.decks = Append(decks, deck)])

(***************************************************************************)
(* updateDeck.                                                             *)
(***************************************************************************)
\* the refinement counting id among the fields
updateDeckRefineWithId(input) ==
    \/ input.id \in Int
    \/ input.title # Undef
    \/ input.isActive # Undef

updateDeckRefine(input) ==
    \/ input.title # Undef
    \/ input.description # Undef
    \/ input.fromLanguage # Undef
    \/ input.toLanguage # Undef
    \/ input.level # Undef
    \/ input.tags # Undef
    \/ input.isActive # Undef

updateDeckInput(input) ==
    /\ input.id \in Int
    /\ input.title # Some("")
    /\ input.level \in {Some(l) : l \in Levels} \cup {Undef}
    /\ updateDeckRefine(input)

\* the update without its refresh of updatedAt
updateDeckSetStale(deck, input) ==
    [deck EXCEPT !.title = SetCol(input.title, @),
                 !.description = SetNullableCol(input.description, @),
                 !.fromLanguage = SetCol(input.fromLanguage, @),
                 !.toLanguage = SetCol(input.toLanguage, @),
                 !.level = SetCol(input.level, @),
                 !.tags = SetNullableCol(input.tags, @),
                 !.isActive = SetCol(input.isActive, @)]

updateDeckSet(deck, input) ==
    [deck EXCEPT !.title = SetCol(input.title, @),
                 !.description = SetNullableCol(input.description, @),
                 !.fromLanguage = SetCol(input.fromLanguage, @),
                 !.toLanguage = SetCol(input.toLanguage, @),
                 !.level = SetCol(input.level, @),
                 !.tags = SetNullableCol(input.tags, @),
                 !.isActive = SetCol(input.isActive, @),
                 !.updatedAt = now]

updateDeck(input, caller) ==
    IF ~requireUser(caller) THEN Fail("UNAUTHORIZED")
    ELSE IF getDeckForUser(input.id, caller) # "OK"
    THEN Fail(getDeckForUser(input.id, caller))
    ELSE
        LET new == [i \in DOMAIN decks |->
                       IF decks[i].id = input.id
                       THEN updateDeckSet(decks[i], input) ELSE decks[i]]
        IN Ok(new[CHOOSE i \in DOMAIN new : new[i].id = input.id],
              [DB EXCEPT !.decks = new])

(***************************************************************************)
(* listDecks.                                                              *)
(***************************************************************************)
listDecks(input, caller) ==
    IF ~requireUser(caller) THEN Fail("UNAUTHORIZED")
    ELSE
        LET includeInactive ==
                IF input = Undef THEN FALSE ELSE Coalesce(input[1].includeInactive, FALSE)
            items == {decks[i] : i \in {j \in DOMAIN decks :
                          /\ decks[j].ownerId = caller
                          /\ includeInactive \/ decks[j].isActive = TRUE}}
        IN Ok([items |-> items, total |-> Cardinality(items)], DB)

(***************************************************************************)
(* upsertCard.                                                             *)
(***************************************************************************)
CardFieldSets ==
    { [displayOrder |-> Undef, term |-> Some("book"), translation |-> Some("Buch"),
       transliteration |-> Undef, partOfSpeech |-> Undef, gender |-> Undef,
       exampleSentence |-> Undef, exampleTranslation |-> Undef, phonetic |-> Undef,
       audioUrl |-> Undef, tags |-> Undef, isActive |-> Undef],
      [displayOrder |-> Undef, term |-> Some("Tisch"), translation |-> Some("table"),
       transliteration |-> Undef, partOfSpeech |-> Undef, gender |-> Undef,
       exampleSentence |-> Undef, exampleTranslation |-> Undef, phonetic |-> Undef,
       audioUrl |-> Undef, tags |-> Undef, isActive |-> Some(TRUE)],
      [displayOrder |-> Some(5), term |-> Some("Haus"), translation |-> Some("house"),
       transliteration |-> Some("haus"), partOfSpeech |-> Some("noun"),
       gender |-> Some("n"), exampleSentence |-> Some("Das Haus."),
       exampleTranslation |-> Some("The house."), phonetic |-> Some("haUs"),
       audioUrl |-> Some("a.mp3"), tags |-> Some("t"), isActive |-> Some(FALSE)],
      [displayOrder |-> Undef, term |-> Some(""), translation |-> Some("Buch"),
       transliteration |-> Undef, partOfSpeech |-> Undef, gender |-> Undef,
       exampleSentence |-> Undef, exampleTranslation |-> Undef, phonetic |-> Undef,
       audioUrl |-> Undef, tags |-> Undef, isActive |-> Undef] }

upsertCardInput(input) ==
    /\ input.deckId \in Int
    /\ input.id = Undef \/ input.id[1] \in Int
    /\ input.term # Undef /\ input.term # Some("")
    /\ input.translation # Undef /\ input.translation # Some("")

\* if (input.id): an absent id and the id 0 are both falsy
upsertCardHasId(id) == id # Undef /\ id[1] # 0

\* the card lookup by id alone
selectCardAnyDeck(cardId, deckId) ==
    {i \in DOMAIN cards : cards[i].id = cardId}

\* select().from(VocabCards).where(and(eq(id, cardId), eq(deckId, deckId)))
selectCard(cardId, deckId) ==
    {i \in DOMAIN cards : cards[i].id = cardId /\ cards[i].deckId = deckId}

upsertCardSet(row, card, input) ==
    [row EXCEPT !.deckId = input.deckId,
                !.displayOrder = Coalesce(input.displayOrder, card.displayOrder),
                !.term = input.term[1],
                !.translation = input.translation[1],
                !.transliteration = SetNullableCol(input.transliteration, @),
                !.partOfSpeech = SetNullableCol(input.partOfSpeech, @),
                !.gender = SetNullableCol(input.gender, @),
                !.exampleSentence = SetNullableCol(input.exampleSentence, @),
                !.exampleTranslation = SetNullableCol(input.exampleTranslation, @),
                !.phonetic = SetNullableCol(input.phonetic, @),
                !.audioUrl = SetNullableCol(input.audioUrl, @),
                !.tags = SetNullableCol(input.tags, @),
                !.isActive = Coalesce(input.isActive, card.isActive)]

\* the insertion with isActive defaulting to false
upsertCardValuesInactive(input) ==
    [id |-> Len(cards) + 1,
     deckId |-> input.deckId,
     displayOrder |-> Coalesce(input.displayOrder, 0),
     term |-> input.term[1],
     translation |-> input.translation[1],
     transliteration |-> Col(input.transliteration),
     partOfSpeech |-> Col(input.partOfSpeech),
     gender |-> Col(input.gender),
     exampleSentence |-> Col(input.exampleSentence),
     exampleTranslation |-> Col(input.exampleTranslation),
     phonetic |-> Col(input.phonetic),
     audioUrl |-> Col(input.audioUrl),
     tags |-> Col(input.tags),
     isActive |-> Coalesce(input.isActive, FALSE)]

upsertCardValues(input) ==
    [id |-> Len(cards) + 1,
     deckId |-> input.deckId,
     displayOrder |-> Coalesce(input.displayOrder, 0),
     term |-> input.term[1],
     translation |-> input.translation[1],
     transliteration |-> Col(input.transliteration),
     partOfSpeech |-> Col(input.partOfSpeech),
     gender |-> Col(input.gender),
     exampleSentence |-> Col(input.exampleSentence),
     exampleTranslation |-> Col(input.exampleTranslation),
     phonetic |-> Col(input.phonetic),
     audioUrl |-> Col(input.audioUrl),
     tags |-> Col(input.tags),
     isActive |-> Coalesce(input.isActive, TRUE)]

upsertCard(input, caller) ==
    IF ~requireUser(caller) THEN Fail("UNAUTHORIZED")
    ELSE IF getDeckForUser(input.deckId, caller) # "OK"
    THEN Fail(getDeckForUser(input.deckId, caller))
    ELSE IF upsertCardHasId(input.id)
    THEN
        LET found == selectCard(input.id[1], input.deckId) IN
        IF found = {} THEN Fail("NOT_FOUND")
        ELSE
            LET card == cards[CHOOSE i \in found : TRUE]
                new == [i \in DOMAIN cards |->
                           IF cards[i].id = input.id[1]
                           THEN upsertCardSet(cards[i], card, input) ELSE cards[i]]
            IN Ok(new[CHOOSE i \in DOMAIN new : new[i].id = input.id[1]],
                  [DB EXCEPT !.cards = new])
    ELSE
        LET card == upsertCardValues(input)
        IN Ok(card, [DB EXCEPT !.cards = Append(cards, card)])

(***************************************************************************)
(* listCards.                                                              *)
(***************************************************************************)
listCardsInput(input) == input.deckId \in Int

listCardsSelect(table, deckId, includeInactive) ==
    {table[i] : i \in {j \in DOMAIN table :
         /\ table[j].deckId = deckId
         /\ includeInactive \/ table[j].isActive = TRUE}}

listCards(input, caller) ==
    IF ~requireUser(caller) THEN Fail("UNAUTHORIZED")
    ELSE IF getDeckForUser(input.deckId, caller) # "OK"
    THEN Fail(getDeckForUser(input.deckId, caller))
    ELSE
        LET items == listCardsSelect(cards, input.deckId,
                                     Coalesce(input.includeInactive, FALSE))
        IN Ok([items |-> items, total |-> Cardinality(items)], DB)

(***************************************************************************)
(* startStudySession.                                                      *)
(***************************************************************************)
startStudySessionValues(input, caller) ==
    [id |-> Len(sessions) + 1,
     deckId |-> input.deckId,
     userId |-> caller,
     startedAt |-> now,
     completedAt |-> Null,
     totalCardsSeen |-> 0,
     correctCount |-> 0,
     wrongCount |-> 0,
     summary |-> Null,
     createdAt |-> now]

startStudySession(input, caller) ==
    IF ~requireUser(caller) THEN Fail("UNAUTHORIZED")
    ELSE IF getDeckForUser(input.deckId, caller) # "OK"
    THEN Fail(getDeckForUser(input.deckId, caller))
    ELSE
        LET session == startStudySessionValues(input, caller)
        IN Ok(session, [DB EXCEPT !.sessions = Append(sessions, session)])

(***************************************************************************)
(* completeStudySession.                                                   *)
(***************************************************************************)
CompleteFieldSets ==
    { [totalCardsSeen |-> Undef, correctCount |-> Undef, wrongCount |-> Undef,
       summary |-> Undef, completedAt |-> Undef],
      [totalCardsSeen |-> Some(3), correctCount |-> Some(2), wrongCount |-> Some(1),
       summary |-> Some("s"), completedAt |-> Some(0)],
      [totalCardsSeen |-> Some(0), correctCount |-> Some(0), wrongCount |-> Some(0),
       summary |-> Undef, completedAt |-> Undef] }

\* select().from(VocabStudySessions).where(and(eq(id, id), eq(userId, userId)))
selectSession(sessionId, userId) ==
    {i \in DOMAIN sessions : sessions[i].id = sessionId /\ sessions[i].userId = userId}

\* a || b on the counters: a supplied 0 falls back to the stored value
OrElse(a, b) == IF a = Undef \/ a[1] = 0 THEN b ELSE a[1]

completeStudySessionSetOr(row, session, input) ==
    [row EXCEPT !.totalCardsSeen = OrElse(input.totalCardsSeen, session.totalCardsSeen),
                !.correctCount = OrElse(input.correctCount, session.correctCount),
                !.wrongCount = OrElse(input.wrongCount, session.wrongCount),
                !.summary = IF input.summary = Undef THEN session.summary
                            ELSE input.summary,
                !.completedAt = Some(Coalesce(input.completedAt, now))]

completeStudySessionSet(row, session, input) ==
    [row EXCEPT !.totalCardsSeen = Coalesce(input.totalCardsSeen, session.totalCardsSeen),
                !.correctCount = Coalesce(input.correctCount, session.correctCount),
                !.wrongCount = Coalesce(input.wrongCount, session.wrongCount),
                !.summary = IF input.summary = Undef THEN session.summary
                            ELSE input.summary,
                !.completedAt = Some(Coalesce(input.completedAt, now))]

completeStudySession(input, caller) ==
    IF ~requireUser(caller) THEN Fail("UNAUTHORIZED")
    ELSE
        LET found == selectSession(input.id, caller) IN
        IF found = {} THEN Fail("NOT_FOUND")
        ELSE
            LET session == sessions[CHOOSE i \in found : TRUE]
                new == [i \in DOMAIN sessions |->
                           IF sessions[i].id = input.id
                           THEN completeStudySessionSet(sessions[i], session, input)
                           ELSE sessions[i]]
            IN Ok(new[CHOOSE i \in DOMAIN new : new[i].id = input.id],
                  [DB EXCEPT !.sessions = new])

(***************************************************************************)
(* logReview.                                                              *)
(***************************************************************************)
Ratings == {"again", "hard", "good", "easy"}

ReviewFieldSets ==
    { [rating |-> Undef, reviewedAt |-> Undef, dueAt |-> Undef,
       intervalDays |-> Undef, easeFactor |-> Undef],
      [rating |-> Some("easy"), reviewedAt |-> Some(0), dueAt |-> Some(1),
       intervalDays |-> Some(4), easeFactor |-> Some(2)] }

logReviewInput(input) ==
    /\ input.deckId \in Int
    /\ input.cardId \in Int
    /\ input.sessionId = Undef \/ input.sessionId[1] \in Int
    /\ input.rating \in {Some(r) : r \in Ratings} \cup {Undef}

\* if (input.sessionId): an absent sessionId and the sessionId 0 are both falsy
logReviewHasSession(sessionId) == sessionId # Undef /\ sessionId[1] # 0

logReviewValues(input, caller) ==
    [id |-> Len(reviews) + 1,
     deckId |-> input.deckId,
     cardId |-> input.cardId,
     userId |-> caller,
     sessionId |-> Col(input.sessionId),
     rating |-> Coalesce(input.rating, "good"),
     reviewedAt |-> Coalesce(input.reviewedAt, now),
     dueAt |-> Col(input.dueAt),
     intervalDays |-> Coalesce(input.intervalDays, 0),
     easeFactor |-> Col(input.easeFactor)]

logReview(input, caller) ==
    IF ~requireUser(caller) THEN Fail("UNAUTHORIZED")
    ELSE IF getDeckForUser(input.deckId, caller) # "OK"
    THEN Fail(getDeckForUser(input.deckId, caller))
    ELSE IF selectCard(input.cardId, input.deckId) = {} THEN Fail("NOT_FOUND")
    ELSE IF /\ logReviewHasSession(input.sessionId)
            /\ selectSession(input.sessionId[1], caller) = {}
    THEN Fail("FORBIDDEN")
    ELSE
        LET review == logReviewValues(input, caller)
        IN Ok(review, [DB EXCEPT !.reviews = Append(reviews, review)])

(***************************************************************************)
(* Dispatch of one request: the input schema is parsed before the handler  *)
(* runs, and a failed parse is answered without running it; a handler's    *)
(* thrown ActionError leaves the store as it was. The response is held in  *)
(* last until it has been returned to the caller.                          *)
(***************************************************************************)
InputError == Fail("INVALID_ARGUMENT")

Idle == last = None

\* the rows a response adds to the tables
Grows(r) ==
    \/ Len(r.db.decks) > Len(decks)
    \/ Len(r.db.cards) > Len(cards)
    \/ Len(r.db.sessions) > Len(sessions)
    \/ Len(r.db.reviews) > Len(reviews)

\* room: whether the bounds of the model leave room for the row an insertion adds
Serve(op, caller, input, res, room) ==
    /\ Idle
    /\ \E r \in {res} :
          /\ Grows(r) => room
          /\ last' = [op |-> op, caller |-> caller, input |-> input,
                      code |-> r.code, data |-> r.data, at |-> now]
          /\ pre' = DB
          /\ decks' = r.db.decks
          /\ cards' = r.db.cards
          /\ sessions' = r.db.sessions
          /\ reviews' = r.db.reviews
    /\ UNCHANGED <<now, prevInsert, procs>>

NoTables == [decks |-> <<>>, cards |-> <<>>, sessions |-> <<>>, reviews |-> <<>>]

\* the envelope (or the error) goes back to the caller; remember: whether a
\* card insertion is kept in prevInsert for the request that follows it
Respond(remember) ==
    /\ ~Idle
    /\ last' = None
    /\ pre' = NoTables
    /\ prevInsert' =
          IF /\ remember
             /\ last.op = "upsertCard" /\ last.code = "OK" /\ last.input.id = Undef
          THEN [op |-> "upsertCard", caller |-> last.caller, input |-> last.input,
                card |-> last.data, cardsBefore |-> pre.cards]
          ELSE None
    /\ UNCHANGED <<decks, cards, sessions, reviews, now, procs>>

DeckIds == 1 .. MaxDecksAcross
CardIds == 0 .. MaxCards
SessionIds == 0 .. MaxSessions
Optional(S) == {Undef} \cup {Some(x) : x \in S}

PlainDeck == {f \in DeckFieldSets : f.title = Some("Travel")}
PlainCard == {f \in CardFieldSets : f.term = Some("book")}
PlainComplete == {f \in CompleteFieldSets : f.totalCardsSeen = Undef}
PlainReview == {f \in ReviewFieldSets : f.rating = Undef}

CreateDeck(callers, fieldSets, room) ==
    \E caller \in callers, input \in fieldSets :
        Serve("createDeck", caller, input,
              IF createDeckInput(input) THEN createDeck(input, caller) ELSE InputError,
              room)

UpdateDeck(callers, fieldSets) ==
    \E caller \in callers, fields \in fieldSets, id \in DeckIds :
        LET input == [id |-> id] @@ fields IN
        Serve("updateDeck", caller, input,
              IF updateDeckInput(input) THEN updateDeck(input, caller) ELSE InputError,
              TRUE)

ListDecks(callers) ==
    \E caller \in callers,
       input \in {Undef} \cup {Some([includeInactive |-> b]) : b \in Optional(BOOLEAN)} :
        Serve("listDecks", caller, input, listDecks(input, caller), TRUE)

UpsertCard(callers, fieldSets, room) ==
    \E caller \in callers, fields \in fieldSets,
       id \in Optional(CardIds), deckId \in DeckIds :
        LET input == [id |-> id, deckId |-> deckId] @@ fields IN
        Serve("upsertCard", caller, input,
              IF upsertCardInput(input) THEN upsertCard(input, caller) ELSE InputError,
              room)

ListCards(callers) ==
    \E caller \in callers, deckId \in DeckIds, includeInactive \in Optional(BOOLEAN) :
        LET input == [deckId |-> deckId, includeInactive |-> includeInactive] IN
        Serve("listCards", caller, input,
              IF listCardsInput(input) THEN listCards(input, caller) ELSE InputError,
              TRUE)

StartStudySession(callers, room) ==
    \E caller \in callers, deckId \in DeckIds :
        LET input == [deckId |-> deckId] IN
        Serve("startStudySession", caller, input, startStudySession(input, caller), room)

CompleteStudySession(callers, fieldSets) ==
    \E caller \in callers, fields \in fieldSets, id \in SessionIds :
        LET input == [id |-> id] @@ fields IN
        Serve("completeStudySession", caller, input,
              completeStudySession(input, caller), TRUE)

LogReview(callers, fieldSets, room) ==
    \E caller \in callers, fields \in fieldSets, deckId \in DeckIds,
       cardId \in CardIds, sessionId \in Optional(SessionIds) :
        LET input == [deckId |-> deckId, cardId |-> cardId, sessionId |-> sessionId]
                     @@ fields IN
        Serve("logReview", caller, input,
              IF logReviewInput(input) THEN logReview(input, caller) ELSE InputError,
              room)

\* the clock advances between requests
Tick ==
    /\ Idle
    /\ now < MaxTime
    /\ now' = now + 1
    /\ UNCHANGED <<decks, cards, sessions, reviews, last, pre, prevInsert, procs>>

Init ==
    /\ decks = <<>>
    /\ cards = <<>>
    /\ sessions = <<>>
    /\ reviews = <<>>
    /\ now = 0
    /\ last = None
    /\ pre = NoTables
    /\ prevInsert = None
    /\ procs = [u \in Users |-> Resting]

RoomDecks == Len(decks) < MaxDecks
RoomDecksAcross == Len(decks) < MaxDecksAcross
RoomCards == Len(cards) < MaxCards
RoomSessions == Len(sessions) < MaxSessions
RoomReviews == Len(reviews) < MaxReviews
RoomRows == Len(cards) + Len(sessions) + Len(reviews) < MaxRows

(***************************************************************************)
(* Spec: every handler, each request served alone.                         *)
(***************************************************************************)
Next ==
    \/ CreateDeck(Callers, PlainDeck, RoomDecks)
    \/ UpdateDeck(Callers, {f \in DeckFieldSets : f.title = Undef})
    \/ ListDecks(Callers)
    \/ UpsertCard(Callers, PlainCard, RoomCards /\ RoomRows)
    \/ ListCards(Callers)
    \/ StartStudySession(Callers, RoomSessions /\ RoomRows)
    \/ CompleteStudySession(Callers, PlainComplete)
    \/ LogReview(Callers, ReviewFieldSets, RoomReviews /\ RoomRows)
    \/ Respond(FALSE)

Spec == Init /\ [][Next]_vars

(***************************************************************************)
(* SpecDeck: the deck handlers over every deck input, with the clock.      *)
(***************************************************************************)
NextDeck ==
    \/ CreateDeck(Callers, DeckFieldSets, RoomDecks)
    \/ UpdateDeck(Callers, DeckFieldSets)
    \/ ListDecks(Callers)
    \/ Tick
    \/ Respond(FALSE)

SpecDeck == Init /\ [][NextDeck]_vars

(***************************************************************************)
(* SpecCard: the card handlers over every card input, on several decks.    *)
(***************************************************************************)
NextCard ==
    \/ CreateDeck(Users, PlainDeck, RoomDecksAcross)
    \/ UpsertCard(Users, CardFieldSets, RoomCards)
    \/ ListCards(Users)
    \/ Respond(TRUE)

SpecCard == Init /\ [][NextCard]_vars

(***************************************************************************)
(* SpecSession: the study-session handlers, with the clock.                *)
(***************************************************************************)
NextSession ==
    \/ CreateDeck(Users, PlainDeck, RoomDecks)
    \/ StartStudySession(Callers, RoomSessions)
    \/ CompleteStudySession(Callers, CompleteFieldSets)
    \/ Tick
    \/ Respond(FALSE)

SpecSession == Init /\ [][NextSession]_vars

(***************************************************************************)
(* SpecReview: reviews over cards and sessions of several decks.           *)
(***************************************************************************)
NextReview ==
    \/ CreateDeck(Users, PlainDeck, RoomDecksAcross)
    \/ UpsertCard(Users, PlainCard, RoomCards /\ RoomRows)
    \/ StartStudySession(Users, RoomSessions /\ RoomRows)
    \/ LogReview(Users, PlainReview, RoomReviews /\ RoomRows)
    \/ Respond(FALSE)

SpecReview == Init /\ [][NextReview]_vars
(***************************************************************************)
(* SpecConc: the requests of the users in flight at once, one per user. A  *)
(* handler runs up to its next store call in one step, and the store       *)
(* serves one call at a time. What a handler has read it keeps in row,     *)
(* whatever other requests write afterwards.                               *)
(***************************************************************************)
\* the first store call of a handler
FirstCall(op) ==
    CASE op = "createDeck" -> "insertDeck"
      [] op = "completeStudySession" -> "selectSession"
      [] OTHER -> "getDeck"

\* await getDeckForUser(...): a rejection ends the handler
AfterGetDeckUnawaited(code, next) == next

AfterGetDeck(code, next) == IF code = "OK" THEN next ELSE "throw"

\* the store call that follows the ownership check
CallAfterGetDeck(p) ==
    CASE p.op = "updateDeck" -> "updateDeck"
      [] p.op = "upsertCard" ->
            IF upsertCardHasId(p.input.id) THEN "selectCard" ELSE "insertCard"
      [] p.op = "startStudySession" -> "insertSession"
      [] p.op = "logReview" -> "selectCard"

\* the handler of the request of user u returns or throws with code
Finish(u, code) == procs' = [procs EXCEPT ![u] = Resting]

Goto(u, call, row) == procs' = [procs EXCEPT ![u].pc = call, ![u].row = row]

\* a user sends a request once the previous one is answered; the input
\* passes the schema and requireUser passes, the caller being signed in
Begin(op, u, input, accepted) ==
    /\ procs[u] = Resting
    /\ requireUser(u)
    /\ accepted
    /\ procs' = [procs EXCEPT ![u] = [op |-> op, input |-> input,
                                      pc |-> FirstCall(op), row |-> <<>>]]
    /\ UNCHANGED <<decks, cards, sessions, reviews, now, last, pre, prevInsert>>

BeginCreateDeck ==
    \E u \in Users, input \in PlainDeck :
        Begin("createDeck", u, input, createDeckInput(input))

BeginUpdateDeck ==
    \E u \in Users, fields \in {f \in DeckFieldSets : f.title = Undef /\ f.isActive # Undef},
       id \in DeckIds :
        LET input == [id |-> id] @@ fields IN
        Begin("updateDeck", u, input, updateDeckInput(input))

BeginUpsertCard ==
    \E u \in Users, fields \in PlainCard, id \in Optional(1 .. MaxCards),
       deckId \in DeckIds :
        LET input == [id |-> id, deckId |-> deckId] @@ fields IN
        Begin("upsertCard", u, input, upsertCardInput(input))

BeginStartStudySession ==
    \E u \in Users, deckId \in DeckIds :
        Begin("startStudySession", u, [deckId |-> deckId], TRUE)

BeginCompleteStudySession ==
    \E u \in Users, fields \in PlainComplete, id \in 1 .. MaxSessions :
        Begin("completeStudySession", u, [id |-> id] @@ fields, TRUE)

BeginLogReview ==
    \E u \in Users, fields \in PlainReview, deckId \in DeckIds,
       cardId \in 1 .. MaxCards, sessionId \in Optional(1 .. MaxSessions) :
        LET input == [deckId |-> deckId, cardId |-> cardId, sessionId |-> sessionId]
                     @@ fields IN
        Begin("logReview", u, input, logReviewInput(input))

\* getDeckForUser: db.select().from(VocabDecks).where(eq(id, deckId))
CallGetDeck ==
    \E u \in Users :
        LET p == procs[u]
            deckId == IF p.op = "updateDeck" THEN p.input.id ELSE p.input.deckId
            code == getDeckForUser(deckId, u)
            next == AfterGetDeck(code, CallAfterGetDeck(p))
        IN /\ p.pc = "getDeck"
           /\ IF next = "throw" THEN Finish(u, code) ELSE Goto(u, next, <<>>)
           /\ UNCHANGED <<decks, cards, sessions, reviews, now, last, pre, prevInsert>>

\* db.select().from(VocabCards).where(and(eq(id, ...), eq(deckId, ...)))
CallSelectCard ==
    \E u \in Users :
        LET p == procs[u]
            cardId == IF p.op = "upsertCard" THEN p.input.id[1] ELSE p.input.cardId
            found == selectCard(cardId, p.input.deckId)
        IN /\ p.pc = "selectCard"
           /\ IF found = {} THEN Finish(u, "NOT_FOUND")
              ELSE IF p.op = "upsertCard"
              THEN Goto(u, "updateCard", <<cards[CHOOSE j \in found : TRUE]>>)
              ELSE IF logReviewHasSession(p.input.sessionId)
              THEN Goto(u, "selectSession", <<>>)
              ELSE Goto(u, "insertReview", <<>>)
           /\ UNCHANGED <<decks, cards, sessions, reviews, now, last, pre, prevInsert>>

\* db.select().from(VocabStudySessions).where(and(eq(id, ...), eq(userId, ...)))
CallSelectSession ==
    \E u \in Users :
        LET p == procs[u]
            sessionId == IF p.op = "logReview" THEN p.input.sessionId[1] ELSE p.input.id
            found == selectSession(sessionId, u)
        IN /\ p.pc = "selectSession"
           /\ IF p.op = "logReview"
              THEN IF found = {} THEN Finish(u, "FORBIDDEN")
                   ELSE Goto(u, "insertReview", <<>>)
              ELSE IF found = {} THEN Finish(u, "NOT_FOUND")
                   ELSE Goto(u, "updateSession", <<sessions[CHOOSE j \in found : TRUE]>>)
           /\ UNCHANGED <<decks, cards, sessions, reviews, now, last, pre, prevInsert>>

\* db.insert(VocabDecks).values(...)
CallInsertDeck ==
    \E u \in Users :
        /\ procs[u].pc = "insertDeck"
        /\ RoomDecks
        /\ decks' = Append(decks, createDeckValues(procs[u].input, u))
        /\ Finish(u, "OK")
        /\ UNCHANGED <<cards, sessions, reviews, now, last, pre, prevInsert>>

\* db.update(VocabDecks).set(...).where(eq(id, input.id))
CallUpdateDeck ==
    \E u \in Users :
        /\ procs[u].pc = "updateDeck"
        /\ decks' = [j \in DOMAIN decks |->
                        IF decks[j].id = procs[u].input.id
                        THEN updateDeckSet(decks[j], procs[u].input) ELSE decks[j]]
        /\ Finish(u, "OK")
        /\ UNCHANGED <<cards, sessions, reviews, now, last, pre, prevInsert>>

\* db.insert(VocabCards).values(...)
CallInsertCard ==
    \E u \in Users :
        /\ procs[u].pc = "insertCard"
        /\ RoomCards /\ RoomRows
        /\ cards' = Append(cards, upsertCardValues(procs[u].input))
        /\ Finish(u, "OK")
        /\ UNCHANGED <<decks, sessions, reviews, now, last, pre, prevInsert>>

\* db.update(VocabCards).set(...).where(eq(id, input.id))
CallUpdateCard ==
    \E u \in Users :
        /\ procs[u].pc = "updateCard"
        /\ cards' = [j \in DOMAIN cards |->
                        IF cards[j].id = procs[u].input.id[1]
                        THEN upsertCardSet(cards[j], procs[u].row[1], procs[u].input)
                        ELSE cards[j]]
        /\ Finish(u, "OK")
        /\ UNCHANGED <<decks, sessions, reviews, now, last, pre, prevInsert>>

\* db.insert(VocabStudySessions).values(...)
CallInsertSession ==
    \E u \in Users :
        /\ procs[u].pc = "insertSession"
        /\ RoomSessions /\ RoomRows
        /\ sessions' = Append(sessions,
                              startStudySessionValues(procs[u].input, u))
        /\ Finish(u, "OK")
        /\ UNCHANGED <<decks, cards, reviews, now, last, pre, prevInsert>>

\* db.update(VocabStudySessions).set(...).where(eq(id, input.id))
CallUpdateSession ==
    \E u \in Users :
        /\ procs[u].pc = "updateSession"
        /\ sessions' = [j \in DOMAIN sessions |->
                           IF sessions[j].id = procs[u].input.id
                           THEN completeStudySessionSet(sessions[j], procs[u].row[1],
                                                        procs[u].input)
                           ELSE sessions[j]]
        /\ Finish(u, "OK")
        /\ UNCHANGED <<decks, cards, reviews, now, last, pre, prevInsert>>

\* db.insert(VocabReviews).values(...)
CallInsertReview ==
    \E u \in Users :
        /\ procs[u].pc = "insertReview"
        /\ RoomReviews /\ RoomRows
        /\ reviews' = Append(reviews, logReviewValues(procs[u].input, u))
        /\ Finish(u, "OK")
        /\ UNCHANGED <<decks, cards, sessions, now, last, pre, prevInsert>>

NextConc ==
    \/ BeginCreateDeck
    \/ BeginUpdateDeck
    \/ BeginUpsertCard
    \/ BeginStartStudySession
    \/ BeginCompleteStudySession
    \/ BeginLogReview
    \/ CallGetDeck
    \/ CallSelectCard
    \/ CallSelectSession
    \/ CallInsertDeck
    \/ CallUpdateDeck
    \/ CallInsertCard
    \/ CallUpdateCard
    \/ CallInsertSession
    \/ CallUpdateSession
    \/ CallInsertReview

SpecConc == Init /\ [][NextConc]_vars

(***************************************************************************)
(* Properties. In a state that answers a request (last # None), pre holds  *)
(* the tables before the request and the tables hold its effect.           *)
(***************************************************************************)
Served == last # None

DeckScoped == {"updateDeck", "upsertCard", "listCards", "startStudySession", "logReview"}

\* the deck id a deck-scoped request names
LastDeckId == IF last.op = "updateDeck" THEN last.input.id ELSE last.input.deckId

\* whether the input of the last request passes the schema of its action
LastInputAccepted ==
    CASE last.op = "createDeck" -> createDeckInput(last.input)
      [] last.op = "updateDeck" -> updateDeckInput(last.input)
      [] last.op = "upsertCard" -> upsertCardInput(last.input)
      [] last.op = "listCards" -> listCardsInput(last.input)
      [] last.op = "logReview" -> logReviewInput(last.input)
      [] OTHER -> TRUE

OwnersBefore(deckId) ==
    {pre.decks[i].ownerId : i \in {j \in DOMAIN pre.decks : pre.decks[j].id = deckId}}

\* C1: a deck-scoped request (updateDeck, upsertCard, listCards,
\* startStudySession, logReview) with an accepted input, sent by a signed-in
\* user who is not the owner of the deck it names, fails with FORBIDDEN; sent
\* with a deck id that matches no deck it fails with NOT_FOUND; either way no
\* row of any table is created or changed.
C1_ForeignDeckForbidden ==
    (Served /\ last.op \in DeckScoped /\ last.caller \in Users /\ LastInputAccepted) =>
        /\ OwnersBefore(LastDeckId) = {} => last.code = "NOT_FOUND" /\ DB = pre
        /\ (OwnersBefore(LastDeckId) # {} /\ last.caller \notin OwnersBefore(LastDeckId))
               => last.code = "FORBIDDEN" /\ DB = pre

\* a user who does not own deck 1 logs a review of its card and is refused
C1_Witness ==
    /\ Served /\ last.op = "logReview" /\ last.code = "FORBIDDEN"
    /\ last.caller \in Users
    /\ Len(decks) = 1 /\ last.input.deckId = 1 /\ decks[1].ownerId # last.caller
    /\ Len(cards) = 1 /\ last.input.cardId = 1
    /\ Len(sessions) = 1

MutableDeckFields ==
    {"title", "description", "fromLanguage", "toLanguage", "level", "tags", "isActive"}

\* C2: updateDeck with none of the mutable fields fails with
\* INVALID_ARGUMENT whatever the id and whoever the caller (the deck missing,
\* another user's, or no identity), and no deck changes, updatedAt included.
C2_EmptyUpdateInvalid ==
    (/\ Served /\ last.op = "updateDeck"
     /\ \A f \in MutableDeckFields : last.input[f] = Undef)
        => last.code = "INVALID_ARGUMENT" /\ DB = pre

\* the owner sends an empty update of an existing deck after the clock moved
C2_Witness ==
    /\ Served /\ last.op = "updateDeck"
    /\ \A f \in MutableDeckFields : last.input[f] = Undef
    /\ Len(decks) = 1 /\ last.input.id = 1 /\ last.caller = decks[1].ownerId
    /\ last.at > decks[1].updatedAt

\* C3: upsertCard by the deck's owner with an id supplied (any integer, 0
\* included) succeeds only if a card with that id exists in the supplied deck;
\* otherwise it fails with NOT_FOUND and the cards are as before.
C3_UpsertWithIdNeedsCard ==
    (/\ Served /\ last.op = "upsertCard" /\ upsertCardInput(last.input)
     /\ last.input.id # Undef
     /\ last.caller \in OwnersBefore(last.input.deckId))
        => IF \E i \in DOMAIN pre.cards :
                 /\ pre.cards[i].id = last.input.id[1]
                 /\ pre.cards[i].deckId = last.input.deckId
           THEN last.code = "OK" /\ Len(cards) = Len(pre.cards)
           ELSE last.code = "NOT_FOUND" /\ cards = pre.cards

\* C4: logReview with a sessionId supplied (any integer, 0 included) inserts
\* a review only if a session with that id exists and belongs to the caller,
\* else it fails with FORBIDDEN and inserts nothing; so every stored review
\* with a sessionId references an existing session of the review's user.
C4_ReviewSessionOwned ==
    /\ \A i \in DOMAIN reviews :
          reviews[i].sessionId # Null =>
              \E j \in DOMAIN sessions :
                  /\ sessions[j].id = reviews[i].sessionId[1]
                  /\ sessions[j].userId = reviews[i].userId
    /\ (/\ Served /\ last.op = "logReview" /\ last.input.sessionId # Undef
        /\ ~ \E j \in DOMAIN pre.sessions :
                 /\ pre.sessions[j].id = last.input.sessionId[1]
                 /\ pre.sessions[j].userId = last.caller)
           => last.code # "OK" /\ reviews = pre.reviews
    /\ (/\ Served /\ last.op = "logReview" /\ last.input.sessionId # Undef
        /\ last.caller \in OwnersBefore(last.input.deckId)
        /\ \E i \in DOMAIN pre.cards :
               /\ pre.cards[i].id = last.input.cardId
               /\ pre.cards[i].deckId = last.input.deckId
        /\ ~ \E j \in DOMAIN pre.sessions :
                 /\ pre.sessions[j].id = last.input.sessionId[1]
                 /\ pre.sessions[j].userId = last.caller)
           => last.code = "FORBIDDEN"

\* C5: every stored review names an existing card of the review's own deck:
\* logReview with a card of another deck fails with NOT_FOUND and inserts
\* nothing, and no request changes the deckId of a card.
C5_ReviewCardInDeck ==
    /\ \A i \in DOMAIN reviews :
          \E j \in DOMAIN cards :
              cards[j].id = reviews[i].cardId /\ cards[j].deckId = reviews[i].deckId
    /\ Served => \A i \in DOMAIN pre.cards :
                     cards[i].id = pre.cards[i].id /\ cards[i].deckId = pre.cards[i].deckId
    /\ (/\ Served /\ last.op = "logReview"
        /\ last.caller \in OwnersBefore(last.input.deckId)
        /\ ~ \E j \in DOMAIN pre.cards :
                 /\ pre.cards[j].id = last.input.cardId
                 /\ pre.cards[j].deckId = last.input.deckId)
           => last.code = "NOT_FOUND" /\ reviews = pre.reviews

\* the owner of two decks logs a review under one deck for the card of the other
C5_Witness ==
    /\ Served /\ last.op = "logReview" /\ last.code = "NOT_FOUND"
    /\ last.caller \in OwnersBefore(last.input.deckId)
    /\ \E j \in DOMAIN cards :
           /\ cards[j].id = last.input.cardId
           /\ cards[j].deckId # last.input.deckId
           /\ last.caller \in OwnersBefore(cards[j].deckId)

\* C6: startedAt of a session never changes, and completedAt changes at most
\* once, from null to a time: a completeStudySession of a session that is
\* already completed changes nothing of it.
C6_CompletedOnce ==
    Served => \A i \in DOMAIN pre.sessions :
                  /\ sessions[i].startedAt = pre.sessions[i].startedAt
                  /\ pre.sessions[i].completedAt # Null => sessions[i] = pre.sessions[i]

\* C7: completeStudySession by a signed-in user with an id that matches no
\* session of the caller fails with NOT_FOUND and changes no session; on a
\* session of the caller each omitted counter and an omitted summary keep
\* their stored value, the supplied ones are overwritten, completedAt becomes
\* the supplied value or else the time of the call, and nothing else changes.
C7_CompleteFrame ==
    (Served /\ last.op = "completeStudySession" /\ last.caller \in Users) =>
        LET own == {i \in DOMAIN pre.sessions :
                       /\ pre.sessions[i].id = last.input.id
                       /\ pre.sessions[i].userId = last.caller}
            in == last.input
        IN IF own = {}
           THEN last.code = "NOT_FOUND" /\ DB = pre
           ELSE /\ last.code = "OK"
                /\ DOMAIN sessions = DOMAIN pre.sessions
                /\ \A i \in DOMAIN pre.sessions :
                      LET old == pre.sessions[i]
                      IN IF i \in own
                         THEN sessions[i] =
                                [old EXCEPT
                                   !.totalCardsSeen =
                                       IF in.totalCardsSeen = Undef THEN @
                                       ELSE in.totalCardsSeen[1],
                                   !.correctCount =
                                       IF in.correctCount = Undef THEN @
                                       ELSE in.correctCount[1],
                                   !.wrongCount =
                                       IF in.wrongCount = Undef THEN @
                                       ELSE in.wrongCount[1],
                                   !.summary =
                                       IF in.summary = Undef THEN @ ELSE in.summary,
                                   !.completedAt =
                                       IF in.completedAt = Undef THEN Some(last.at)
                                       ELSE in.completedAt]
                         ELSE sessions[i] = old
                /\ decks = pre.decks /\ cards = pre.cards /\ reviews = pre.reviews

\* a session with counters 3, 2, 1 is completed again with the counters 0
C7_Witness ==
    /\ Served /\ last.op = "completeStudySession" /\ last.code = "OK"
    /\ last.input.totalCardsSeen = Some(0)
    /\ pre.sessions[last.input.id].totalCardsSeen = 3
    /\ sessions[last.input.id].totalCardsSeen = 0
    /\ sessions[last.input.id].summary = Some("s")

\* the cards a listCards that follows a card insertion returns beyond the
\* cards stored before the insertion
NewlyListed ==
    {c \in last.data.items :
        \A i \in DOMAIN prevInsert.cardsBefore : prevInsert.cardsBefore[i].id # c.id}

InsertThenList ==
    /\ Served /\ last.op = "listCards" /\ last.code = "OK"
    /\ last.input.includeInactive = Undef
    /\ prevInsert # None
    /\ prevInsert.input.deckId = last.input.deckId

ListsTheInsertedCard ==
    /\ Cardinality(NewlyListed) = 1
    /\ \A c \in NewlyListed :
          /\ c.term = prevInsert.input.term[1]
          /\ c.translation = prevInsert.input.translation[1]
          /\ c.isActive = TRUE
    /\ last.data.total = Cardinality(last.data.items)

\* C8 as stated: after a successful upsertCard without id (any valid input),
\* listCards of that deck with the default includeInactive returns exactly
\* one card that was not there before, with the supplied term and translation
\* and isActive = true, and total is the number of items.
C8_Original == InsertThenList => ListsTheInsertedCard

\* C8 amended: the same, for inputs whose isActive is omitted or true.
C8_InsertThenList ==
    (InsertThenList /\ prevInsert.input.isActive \in {Undef, Some(TRUE)})
        => ListsTheInsertedCard

\* a card inserted with isActive omitted is listed right after
C8_Witness ==
    /\ InsertThenList
    /\ prevInsert.input.isActive = Undef
    /\ Cardinality(last.data.items) >= 1
    /\ Len(decks) = 2

DecksFrame ==
    Served =>
        /\ \A i \in DOMAIN pre.decks : decks[i].ownerId = pre.decks[i].ownerId
        /\ (last.op = "createDeck" /\ last.code = "OK")
               => decks[Len(decks)].createdAt = decks[Len(decks)].updatedAt
        /\ (last.op = "updateDeck" /\ last.code # "OK") => decks = pre.decks

\* C9 as stated: ownerId of a deck never changes, createDeck sets createdAt =
\* updatedAt, a failed updateDeck leaves the decks alone, and a successful
\* updateDeck leaves updatedAt strictly greater than before the call.
C9_Original ==
    /\ DecksFrame
    /\ (Served /\ last.op = "updateDeck" /\ last.code = "OK") =>
           \A i \in DOMAIN pre.decks :
               decks[i].id = last.input.id => decks[i].updatedAt > pre.decks[i].updatedAt

\* C9 amended: as above, but a successful updateDeck sets updatedAt to the
\* clock reading of the call, which is not below the value before the call
\* when the clock does not run backwards, and equals it when the clock has
\* not advanced since the deck was last written.
C9_UpdatedAtIsNow ==
    /\ DecksFrame
    /\ (Served /\ last.op = "updateDeck" /\ last.code = "OK") =>
           \A i \in DOMAIN pre.decks :
               decks[i].id = last.input.id =>
                   /\ decks[i].updatedAt = last.at
                   /\ decks[i].updatedAt >= pre.decks[i].updatedAt

\* an update within the millisecond of the previous write: the row changes,
\* updatedAt does not
C9_Witness ==
    /\ Served /\ last.op = "updateDeck" /\ last.code = "OK"
    /\ decks[last.input.id] # pre.decks[last.input.id]
    /\ decks[last.input.id].updatedAt = pre.decks[last.input.id].updatedAt
OwnerOf(deckId) == {decks[i].ownerId : i \in {j \in DOMAIN decks : decks[j].id = deckId}}

====
